---- MODULE Spec2Model ----
(***************************************************************************)
(* Model of the HFT options trading simulator (src/main.cpp).              *)
(*                                                                         *)
(* Number representation.  The program computes in double.  The model      *)
(* keeps every quantity exact in integers:                                 *)
(*   - prices, strikes, payoffs and PnL are integers in units of 1e-4      *)
(*     (100.0 is 1000000); every price is a multiple of 100, so that       *)
(*     S*(1-delta) and S*(1+delta) with delta = 5% are exact;              *)
(*   - log-returns, mu, sigma and the volatility thresholds are integers   *)
(*     in units of 1e-5; a normal draw Z is an integer in units of 1e-3;   *)
(*   - a moving average is the fraction num/den;                           *)
(*   - a volatility is kept as its square sq/den (sqrt is monotone, the    *)
(*     program only compares volatilities with positive thresholds);       *)
(*     den = 0 stands for the NaN of a 0/0 division.                       *)
(* exp and log are modelled on a geometric price grid: GridPrice[k] is     *)
(* S0*exp(LogStep*(k - GridHalf - 1)) rounded to the price unit.           *)
(***************************************************************************)
EXTENDS Integers, Sequences, FiniteSets, TLC

\* ------------------------------------------------------------------------
\* Simulation parameters (main.cpp:96-113)
\* ------------------------------------------------------------------------
\* Bound standing for totalTicks = 10000.
MaxTicks == 16

totalTicks == MaxTicks

S0 == 1000000

mu == 10

sigma == 1000

dt == 1

holdPeriod == 10

delta == 5

shortWindow == 5

longWindow == 20

volWindow == 5

volThresholdHigh == 1000

volThresholdLow == 500

volThresholdHighStrangle == 1200

volThresholdLowStrangle == 700

\* The literal 10 assigned to .volume in every entry branch.
tradeVolume == 10

Strategies == 1..5

Straddle == 1

Strangle == 2

BullSpread == 3

BearSpread == 4

ButterflySpread == 5

\* ------------------------------------------------------------------------
\* Small arithmetic helpers
\* ------------------------------------------------------------------------
Max(a, b) == IF a >= b THEN a ELSE b

RECURSIVE SumSeq(_)
SumSeq(s) == IF s = << >> THEN 0 ELSE Head(s) + SumSeq(Tail(s))

RECURSIVE SumSqSeq(_)
SumSqSeq(s) == IF s = << >> THEN 0 ELSE Head(s) * Head(s) + SumSqSeq(Tail(s))

\* prices[i] of the C++ vector (0-based).
At(prices, i) == prices[i + 1]

\* ------------------------------------------------------------------------
\* The random source and the GBM price step (main.cpp:128-139)
\* ------------------------------------------------------------------------
\* The normal draws a seeded generator can deliver, in units of 1e-3.
\* Z = -0.005 cancels the drift term exactly (a constant price path);
\* Z = +1.235 / -1.245 move the log-price by +/- 0.0124.
Streams == { {-5}, {-1245, 1235} }

\* (mu - 0.5*sigma*sigma)*dt + sigma*sqrt(dt)*Z, in units of 1e-5 (dt = 1).
LogReturn(Z) == (mu - (sigma * sigma) \div 200000) * dt + (sigma * dt * Z) \div 1000

LogStep == LogReturn(1235)

GridPrice ==
  << 742600, 751900, 761200, 770700, 780400, 790100, 800000, 809900,
     820000, 830300, 840600, 851100, 861700, 872500, 883400, 894400,
     905600, 916900, 928300, 939900, 951600, 963500, 975500, 987700,
     1000000,
     1012500, 1025100, 1037900, 1050900, 1064000, 1077200, 1090700,
     1104300, 1118100, 1132000, 1146100, 1160400, 1174900, 1189600,
     1204400, 1219500, 1234700, 1250100, 1265700, 1281500, 1297400,
     1313600, 1330000, 1346600 >>

GridHalf == (Len(GridPrice) - 1) \div 2

\* log(p / S0), in units of 1e-5.
Ln(p) == LogStep * ((CHOOSE k \in 1..Len(GridPrice) : GridPrice[k] = p) - GridHalf - 1)

\* S0 * exp(x), x in units of 1e-5.
Exp(x) == GridPrice[x \div LogStep + GridHalf + 1]

\* S_prev * exp((mu - 0.5*sigma*sigma)*dt + sigma*sqrt(dt)*Z)
GBMStep(S_prev, Z) == Exp(Ln(S_prev) + LogReturn(Z))

\* ------------------------------------------------------------------------
\* Option payoff functions (main.cpp:27-56)
\* ------------------------------------------------------------------------
straddlePayoff(S, K) ==
  LET call == Max(S - K, 0)
      put  == Max(K - S, 0)
  IN  call + put

stranglePayoff(S, K1, K2) ==
  LET put  == Max(K1 - S, 0)
      call == Max(S - K2, 0)
  IN  put + call

\* Mutant of bullSpreadPayoff: the two legs exchanged.
bullSpreadPayoff_Reversed(S, K1, K2) ==
  LET longCall  == Max(S - K1, 0)
      shortCall == Max(S - K2, 0)
  IN  shortCall - longCall

bullSpreadPayoff(S, K1, K2) ==
  LET longCall  == Max(S - K1, 0)
      shortCall == Max(S - K2, 0)
  IN  longCall - shortCall

bearSpreadPayoff(S, K1, K2) ==
  LET longPut  == Max(K1 - S, 0)
      shortPut == Max(S - K2, 0)
  IN  longPut - shortPut

butterflySpreadPayoff(S, K1, K2, K3) ==
  LET longCall1  == Max(S - K1, 0)
      shortCalls == 2 * Max(S - K2, 0)
      longCall2  == Max(S - K3, 0)
  IN  longCall1 - shortCalls + longCall2

\* ------------------------------------------------------------------------
\* Indicator functions (main.cpp:61-89)
\* ------------------------------------------------------------------------
\* Mutant of computeMA: the warm-up test of computeVolatility (< window).
computeMA_LateWarmUp(prices, currentTick, window) ==
  IF currentTick < window
  THEN [num |-> At(prices, currentTick), den |-> 1]
  ELSE [num |-> SumSeq([k \in 1..window |-> At(prices, currentTick - window + k)]),
        den |-> window]

computeMA(prices, currentTick, window) ==
  IF currentTick < window - 1
  THEN [num |-> At(prices, currentTick), den |-> 1]
  ELSE [num |-> SumSeq([k \in 1..window |-> At(prices, currentTick - window + k)]),
        den |-> window]

\* The vector `returns` built by the loop of computeVolatility.
RECURSIVE VolReturns(_, _, _)
VolReturns(prices, i, currentTick) ==
  IF i > currentTick THEN << >>
  ELSE IF i = 0 THEN VolReturns(prices, i + 1, currentTick)
  ELSE << Ln(At(prices, i)) - Ln(At(prices, i - 1)) >>
         \o VolReturns(prices, i + 1, currentTick)

\* Mutant of computeVolatility: the loop started one index early.
computeVolatility_LongLoop(prices, currentTick, window) ==
  IF currentTick < window THEN [sq |-> 0, den |-> 1]
  ELSE LET returns == VolReturns(prices, currentTick - window, currentTick)
           n       == Len(returns)
       IN  [sq  |-> n * SumSqSeq(returns) - SumSeq(returns) * SumSeq(returns),
            den |-> n * n]

\* Mutant of computeVolatility: <= in the warm-up test.
computeVolatility_LateGuard(prices, currentTick, window) ==
  IF currentTick <= window THEN [sq |-> 0, den |-> 1]
  ELSE LET returns == VolReturns(prices, currentTick - window + 1, currentTick)
           n       == Len(returns)
       IN  [sq  |-> n * SumSqSeq(returns) - SumSeq(returns) * SumSeq(returns),
            den |-> n * n]

\* Mutant of computeVolatility: the warm-up test of computeMA (< window - 1).
computeVolatility_EarlyGuard(prices, currentTick, window) ==
  IF currentTick < window - 1 THEN [sq |-> 0, den |-> 1]
  ELSE LET returns == VolReturns(prices, currentTick - window + 1, currentTick)
           n       == Len(returns)
       IN  [sq  |-> n * SumSqSeq(returns) - SumSeq(returns) * SumSeq(returns),
            den |-> n * n]

\* sqrt(variance) with mean = sum/n and variance = sum((r-mean)^2)/n, kept as
\* the square (n*sum(r^2) - sum(r)^2) / n^2.
computeVolatility(prices, currentTick, window) ==
  IF currentTick < window THEN [sq |-> 0, den |-> 1]
  ELSE LET returns == VolReturns(prices, currentTick - window + 1, currentTick)
           n       == Len(returns)
       IN  [sq  |-> n * SumSqSeq(returns) - SumSeq(returns) * SumSeq(returns),
            den |-> n * n]

\* Comparisons of doubles in the model's representation.
MAGt(a, b) == a.num * b.den > b.num * a.den

MALt(a, b) == a.num * b.den < b.num * a.den

VolGt(v, thr) == v.den > 0 /\ v.sq > thr * thr * v.den

VolLt(v, thr) == v.den > 0 /\ v.sq < thr * thr * v.den

\* ------------------------------------------------------------------------
\* Alpha signals (main.cpp:146-182): +1 enter, -1 exit, 0 hold
\* ------------------------------------------------------------------------
\* Mutant of alphaStraddle: the two threshold tests exchanged.
alphaStraddle_Flipped(volatility) ==
  IF VolLt(volatility, volThresholdLow) THEN 1
  ELSE IF VolGt(volatility, volThresholdHigh) THEN -1
  ELSE 0

alphaStraddle(volatility) ==
  IF VolGt(volatility, volThresholdHigh) THEN 1
  ELSE IF VolLt(volatility, volThresholdLow) THEN -1
  ELSE 0

alphaStrangle(volatility) ==
  IF VolGt(volatility, volThresholdHighStrangle) THEN 1
  ELSE IF VolLt(volatility, volThresholdLowStrangle) THEN -1
  ELSE 0

\* Mutant of alphaBull: >= in place of >.
alphaBull_NonStrict(shortMA, longMA) == IF ~MALt(shortMA, longMA) THEN 1 ELSE -1

alphaBull(shortMA, longMA) == IF MAGt(shortMA, longMA) THEN 1 ELSE -1

\* Mutant of alphaBear: <= in place of <.
alphaBear_NonStrict(shortMA, longMA) == IF ~MAGt(shortMA, longMA) THEN 1 ELSE -1

alphaBear(shortMA, longMA) == IF MALt(shortMA, longMA) THEN 1 ELSE -1

\* Mutant of alphaButterfly: entry on high instead of low volatility.
alphaButterfly_HighVol(volatility) == IF VolGt(volatility, volThresholdLow) THEN 1 ELSE -1

alphaButterfly(volatility) == IF VolLt(volatility, volThresholdLow) THEN 1 ELSE -1

\* The five signals of tick t over the price history up to t.
Signals(prices, t) ==
  LET shortMA    == computeMA(prices, t, shortWindow)
      longMA     == computeMA(prices, t, longWindow)
      volatility == computeVolatility(prices, t, volWindow)
  IN  [i \in Strategies |->
         CASE i = Straddle        -> alphaStraddle(volatility)
           [] i = Strangle        -> alphaStrangle(volatility)
           [] i = BullSpread      -> alphaBull(shortMA, longMA)
           [] i = BearSpread      -> alphaBear(shortMA, longMA)
           [] i = ButterflySpread -> alphaButterfly(volatility)]

\* ------------------------------------------------------------------------
\* Trade execution (main.cpp:186-291)
\* ------------------------------------------------------------------------
\* S*(1 - delta) and S*(1 + delta), delta in percent.
Below(S) == (S * (100 - delta)) \div 100

Above(S) == (S * (100 + delta)) \div 100

\* Mutant of AssignStrikes: the bear spread's two strikes exchanged.
AssignStrikes_BearSwapped(i, tr, S_new) ==
  CASE i = Straddle        -> [tr EXCEPT !.strike1 = S_new]
    [] i = Strangle        -> [tr EXCEPT !.strike1 = Below(S_new), !.strike2 = Above(S_new)]
    [] i = BullSpread      -> [tr EXCEPT !.strike1 = Below(S_new), !.strike2 = Above(S_new)]
    [] i = BearSpread      -> [tr EXCEPT !.strike1 = Below(S_new), !.strike2 = Above(S_new)]
    [] i = ButterflySpread -> [tr EXCEPT !.strike1 = Below(S_new), !.strike2 = S_new,
                                         !.strike3 = Above(S_new)]

\* The strike assignments of strategy i's entry branch.
AssignStrikes(i, tr, S_new) ==
  CASE i = Straddle        -> [tr EXCEPT !.strike1 = S_new]
    [] i = Strangle        -> [tr EXCEPT !.strike1 = Below(S_new), !.strike2 = Above(S_new)]
    [] i = BullSpread      -> [tr EXCEPT !.strike1 = Below(S_new), !.strike2 = Above(S_new)]
    [] i = BearSpread      -> [tr EXCEPT !.strike1 = Above(S_new), !.strike2 = Below(S_new)]
    [] i = ButterflySpread -> [tr EXCEPT !.strike1 = Below(S_new), !.strike2 = S_new,
                                         !.strike3 = Above(S_new)]

\* Mutant of OpenTrade: the entry tick recorded one tick early.
OpenTrade_PrevTick(i, tr, t, S_new) ==
  AssignStrikes(i, [tr EXCEPT !.open = TRUE, !.strategyType = i, !.entryTick = t - 1,
                              !.entryPrice = S_new, !.volume = tradeVolume],
                S_new)

\* The entry branch of strategy i.
OpenTrade(i, tr, t, S_new) ==
  AssignStrikes(i, [tr EXCEPT !.open = TRUE, !.strategyType = i, !.entryTick = t,
                              !.entryPrice = S_new, !.volume = tradeVolume],
                S_new)

\* The payoff call of strategy i's close branch.
StrategyPayoff(i, S_new, tr) ==
  CASE i = Straddle        -> straddlePayoff(S_new, tr.strike1)
    [] i = Strangle        -> stranglePayoff(S_new, tr.strike1, tr.strike2)
    [] i = BullSpread      -> bullSpreadPayoff(S_new, tr.strike1, tr.strike2)
    [] i = BearSpread      -> bearSpreadPayoff(S_new, tr.strike1, tr.strike2)
    [] i = ButterflySpread -> butterflySpreadPayoff(S_new, tr.strike1, tr.strike2, tr.strike3)

\* Mutant of CloseTrade: the payoff taken at the entry price.
CloseTrade_EntryPrice(i, tr, t, S_new) ==
  [tr EXCEPT !.exitTick = t, !.exitPrice = S_new,
             !.payoff = StrategyPayoff(i, tr.entryPrice, tr) * tr.volume,
             !.open = FALSE]

\* The close branch of strategy i: the trade record after it.
CloseTrade(i, tr, t, S_new) ==
  [tr EXCEPT !.exitTick = t, !.exitPrice = S_new,
             !.payoff = StrategyPayoff(i, S_new, tr) * tr.volume,
             !.open = FALSE]

\* Mutant of CloseCondition: > in place of >=.
CloseCondition_StrictHold(tr, t, alpha) == (t - tr.entryTick > holdPeriod) \/ (alpha = -1)

\* Mutant of CloseCondition: the holding period counted one tick short.
CloseCondition_EarlyHold(tr, t, alpha) == (t - tr.entryTick >= holdPeriod - 1) \/ (alpha = -1)

\* (t - entryTick >= holdPeriod) || (alpha == -1)
CloseCondition(tr, t, alpha) == (t - tr.entryTick >= holdPeriod) \/ (alpha = -1)

\* Mutant of ExecuteStrategy: the entry branch without its !open test.
ExecuteStrategy_NoFlatCheck(i, tr, pnl, t, S_new, alpha) ==
  IF alpha = 1
  THEN [trade |-> OpenTrade(i, tr, t, S_new), pnl |-> pnl, branch |-> "open"]
  ELSE IF tr.open
  THEN IF CloseCondition(tr, t, alpha)
       THEN LET closed == CloseTrade(i, tr, t, S_new)
            IN  [trade |-> closed, pnl |-> pnl + closed.payoff, branch |-> "close"]
       ELSE [trade |-> tr, pnl |-> pnl, branch |-> "none"]
  ELSE [trade |-> tr, pnl |-> pnl, branch |-> "none"]

\* Mutant of ExecuteStrategy: the entry test is a second `if` after the close,
\* so a trade closed on an Enter signal is reopened within the same tick.
ExecuteStrategy_CloseThenOpen(i, tr, pnl, t, S_new, alpha) ==
  IF tr.open /\ CloseCondition(tr, t, alpha)
  THEN LET closed == CloseTrade(i, tr, t, S_new)
       IN  IF alpha = 1
           THEN [trade |-> OpenTrade(i, closed, t, S_new),
                 pnl |-> pnl + closed.payoff, branch |-> "close"]
           ELSE [trade |-> closed, pnl |-> pnl + closed.payoff, branch |-> "close"]
  ELSE IF ~tr.open /\ alpha = 1
  THEN [trade |-> OpenTrade(i, tr, t, S_new), pnl |-> pnl, branch |-> "open"]
  ELSE [trade |-> tr, pnl |-> pnl, branch |-> "none"]

\* Mutant of ExecuteStrategy: a trade that stays open has its entry price
\* moved to the tick's price.
ExecuteStrategy_TrailingEntry(i, tr, pnl, t, S_new, alpha) ==
  IF ~tr.open /\ alpha = 1
  THEN [trade |-> OpenTrade(i, tr, t, S_new), pnl |-> pnl, branch |-> "open"]
  ELSE IF tr.open
  THEN IF CloseCondition(tr, t, alpha)
       THEN LET closed == CloseTrade(i, tr, t, S_new)
            IN  [trade |-> closed, pnl |-> pnl + closed.payoff, branch |-> "close"]
       ELSE [trade |-> [tr EXCEPT !.entryPrice = S_new], pnl |-> pnl, branch |-> "none"]
  ELSE [trade |-> tr, pnl |-> pnl, branch |-> "none"]

\* One strategy block: the trade record and cumulative PnL after it, and the
\* branch it took ("open", "close" or "none").
ExecuteStrategy(i, tr, pnl, t, S_new, alpha) ==
  IF ~tr.open /\ alpha = 1
  THEN [trade |-> OpenTrade(i, tr, t, S_new), pnl |-> pnl, branch |-> "open"]
  ELSE IF tr.open
  THEN IF CloseCondition(tr, t, alpha)
       THEN LET closed == CloseTrade(i, tr, t, S_new)
            IN  [trade |-> closed, pnl |-> pnl + closed.payoff, branch |-> "close"]
       ELSE [trade |-> tr, pnl |-> pnl, branch |-> "none"]
  ELSE [trade |-> tr, pnl |-> pnl, branch |-> "none"]

\* ------------------------------------------------------------------------
\* State
\* ------------------------------------------------------------------------
VARIABLES
  generator,      \* the draws the seeded random source can deliver
  prices,         \* vector<double> prices
  t,              \* the last tick the loop has completed (0 before the loop)
  activeTrades,   \* Trade activeTrades[1..5]
  cumulativePnL,  \* double cumulativePnL[1..5]
  totalPnL,       \* the reported total
  pc,             \* "loop" or "done"
  opens,          \* history: number of trades each strategy has opened
  closedLog,      \* history: the closed trade records of each strategy
  probe           \* the indicator or price-step call under study, with its result

vars == << generator, prices, t, activeTrades, cumulativePnL, totalPnL, pc,
           opens, closedLog, probe >>

\* No call under study: the value of probe throughout a simulation run.
NoProbe == [fn |-> "none"]

\* A Trade whose fields other than `open` have not been assigned: the program
\* reads none of them while open is false; 0 stands for the indeterminate value.
InitialTrade ==
  [strategyType |-> 0, entryTick |-> 0, exitTick |-> 0, entryPrice |-> 0,
   exitPrice |-> 0, strike1 |-> 0, strike2 |-> 0, strike3 |-> 0,
   volume |-> 0, payoff |-> 0, open |-> FALSE]

Init ==
  /\ generator \in Streams
  /\ prices = << S0 >>
  /\ t = 0
  /\ activeTrades = [i \in Strategies |-> InitialTrade]
  /\ cumulativePnL = [i \in Strategies |-> 0]
  /\ totalPnL = 0
  /\ pc = "loop"
  /\ opens = [i \in Strategies |-> 0]
  /\ closedLog = [i \in Strategies |-> << >>]
  /\ probe = NoProbe

\* One iteration of the simulation loop (main.cpp:134-292).
Tick ==
  /\ pc = "loop"
  /\ t + 1 < totalTicks
  /\ \E Z \in generator :
       LET tn      == t + 1
           S_prev  == prices[Len(prices)]
           S_new   == GBMStep(S_prev, Z)
           prices2 == Append(prices, S_new)
           alpha   == Signals(prices2, tn)
           res     == [i \in Strategies |->
                         ExecuteStrategy(i, activeTrades[i], cumulativePnL[i],
                                         tn, S_new, alpha[i])]
       IN  /\ prices' = prices2
           /\ t' = tn
           /\ activeTrades' = [i \in Strategies |-> res[i].trade]
           /\ cumulativePnL' = [i \in Strategies |-> res[i].pnl]
           /\ opens' = [i \in Strategies |->
                          IF res[i].branch = "open"
                          THEN opens[i] + 1 ELSE opens[i]]
           /\ closedLog' = [i \in Strategies |->
                              IF res[i].branch = "close"
                              THEN Append(closedLog[i], res[i].trade)
                              ELSE closedLog[i]]
  /\ UNCHANGED << generator, totalPnL, pc, probe >>

\* Mutant of Report: the summation loop stops one strategy short.
Report_OffByOne ==
  /\ pc = "loop"
  /\ ~(t + 1 < totalTicks)
  /\ totalPnL' = SumSeq([i \in 1..4 |-> cumulativePnL[i]])
  /\ pc' = "done"
  /\ UNCHANGED << generator, prices, t, activeTrades, cumulativePnL, opens, closedLog,
                  probe >>

\* Final reporting (main.cpp:294-301).
Report ==
  /\ pc = "loop"
  /\ ~(t + 1 < totalTicks)
  /\ totalPnL' = SumSeq([i \in Strategies |-> cumulativePnL[i]])
  /\ pc' = "done"
  /\ UNCHANGED << generator, prices, t, activeTrades, cumulativePnL, opens, closedLog,
                  probe >>

Next == Tick \/ Report

Spec == Init /\ [][Next]_vars

TypeOK ==
  /\ generator \in Streams
  /\ t \in 0..(totalTicks - 1)
  /\ Len(prices) = t + 1
  /\ pc \in {"loop", "done"}
  /\ \A i \in Strategies : activeTrades[i].open \in BOOLEAN

\* ------------------------------------------------------------------------
\* The indicator functions as functions of their arguments
\* ------------------------------------------------------------------------
\* Bounds of the calls studied: length of the price history and window size.
MaxHistory == 4

MaxWindow == 3

\* Three successive prices of the grid (a geometric progression).
ProbePrices == { GridPrice[GridHalf + 1], GridPrice[GridHalf + 2], GridPrice[GridHalf + 3] }

Histories == UNION { [1..n -> ProbePrices] : n \in 1..MaxHistory }

\* The simulation state is idle while single calls are studied.
IdleSimulation ==
  /\ generator = {-5}
  /\ prices = << S0 >>
  /\ t = 0
  /\ activeTrades = [i \in Strategies |-> InitialTrade]
  /\ cumulativePnL = [i \in Strategies |-> 0]
  /\ totalPnL = 0
  /\ pc = "loop"
  /\ opens = [i \in Strategies |-> 0]
  /\ closedLog = [i \in Strategies |-> << >>]

ProbeInit == IdleSimulation /\ probe = NoProbe

\* The indices of `prices` that computeMA reads (main.cpp:62, 64-65).
MAReads(currentTick, window) ==
  IF currentTick < window - 1 THEN {currentTick}
  ELSE (currentTick - window + 1)..currentTick

\* A call computeMA(history, tick, window).
ProbeMA ==
  /\ probe = NoProbe
  /\ \E h \in Histories : \E k \in 0..(Len(h) - 1) : \E w \in 1..MaxWindow :
       probe' = [fn |-> "computeMA", history |-> h, tick |-> k, window |-> w,
                 reads |-> MAReads(k, w), result |-> computeMA(h, k, w)]
  /\ UNCHANGED << generator, prices, t, activeTrades, cumulativePnL, totalPnL, pc,
                  opens, closedLog >>

\* A call computeVolatility(history, tick, window).
ProbeVolatility ==
  /\ probe = NoProbe
  /\ \E h \in Histories : \E k \in 0..(Len(h) - 1) : \E w \in 1..MaxWindow :
       probe' = [fn |-> "computeVolatility", history |-> h, tick |-> k, window |-> w,
                 result |-> computeVolatility(h, k, w)]
  /\ UNCHANGED << generator, prices, t, activeTrades, cumulativePnL, totalPnL, pc,
                  opens, closedLog >>

\* The range of double in the price step (main.cpp:138).  A positive double is
\* kept as its natural logarithm in units of 1e-5, 0.0 as DoubleZero.  A
\* result below half the smallest positive double (2^-1075, ln = -745.13322)
\* rounds to 0.0.  Overflow is left out: the draws studied never raise a price.
DoubleMinLn == -74513322

\* ln(100.0), the logarithm of the initial price.
LnS0 == 460517

DoubleZero == [zero |-> TRUE, ln |-> 0]

DoublePos(l) == [zero |-> FALSE, ln |-> l]

\* exp(x) in double.
DoubleExp(x) == IF x < DoubleMinLn THEN DoubleZero ELSE DoublePos(x)

\* Mutant of DoubleMul: the product rounded as a float (limit ln(2^-150)).
DoubleMul_Single(a, b) ==
  IF a.zero \/ b.zero THEN DoubleZero
  ELSE IF a.ln + b.ln < -10397208 THEN DoubleZero
  ELSE DoublePos(a.ln + b.ln)

\* a * b in double, a and b not negative.
DoubleMul(a, b) ==
  IF a.zero \/ b.zero THEN DoubleZero
  ELSE IF a.ln + b.ln < DoubleMinLn THEN DoubleZero
  ELSE DoublePos(a.ln + b.ln)

\* S_prev * exp((mu - 0.5*sigma*sigma)*dt + sigma*sqrt(dt)*Z) in double.
DoubleGBMStep(S_prev, Z) == DoubleMul(S_prev, DoubleExp(LogReturn(Z)))

\* Finite draws studied for the range of the price: Z = -0.005 and Z = -2000.
ProbeDraws == {-5, -2000000}

\* Bound on the number of successive price steps studied.
MaxProbeSteps == 40

\* One more price step of a path that started at S0; `exact` is the logarithm
\* of the price in real arithmetic.
ProbeGBM ==
  /\ probe.fn \in {"none", "GBMStep"}
  /\ LET cur == IF probe = NoProbe
                THEN [fn |-> "GBMStep", steps |-> 0, price |-> DoublePos(LnS0),
                      exact |-> LnS0]
                ELSE probe
     IN  /\ cur.steps < MaxProbeSteps
         /\ \E Z \in ProbeDraws :
              probe' = [fn |-> "GBMStep", steps |-> cur.steps + 1,
                        price |-> DoubleGBMStep(cur.price, Z),
                        exact |-> cur.exact + LogReturn(Z)]
  /\ UNCHANGED << generator, prices, t, activeTrades, cumulativePnL, totalPnL, pc,
                  opens, closedLog >>

ProbeNext == ProbeMA \/ ProbeVolatility \/ ProbeGBM

ProbeSpec == ProbeInit /\ [][ProbeNext]_vars

\* ------------------------------------------------------------------------
\* Properties
\* ------------------------------------------------------------------------
\* The price history up to tick k, and strategy i's signal at tick k.
SignalAt(i, k) == Signals(SubSeq(prices, 1, k + 1), k)[i]

\* C1: for every strategy, after every tick, (trades opened) - (trades
\* closed) is 0 or 1, and it is 1 exactly when the strategy's slot is Open.
C1_OpenCloseBalance ==
  \A i \in Strategies :
    LET d == opens[i] - Len(closedLog[i])
    IN  /\ d \in {0, 1}
        /\ (d = 1) <=> activeTrades[i].open

\* A strategy is Open on its second trade or later.
C1_Witness ==
  \E i \in Strategies :
    activeTrades[i].open /\ opens[i] >= 2 /\ Len(closedLog[i]) = opens[i] - 1

\* C2: a trade Open at the start of tick t is closed during tick t when
\* t - entryTick >= holdPeriod or the signal at t is Exit, whatever the other
\* condition is; so no trade is Open after a tick with t - entryTick >=
\* holdPeriod and every closed trade has 1 <= exitTick - entryTick <= holdPeriod.
C2_CloseRule ==
  /\ [](\A i \in Strategies :
          /\ activeTrades[i].open => t - activeTrades[i].entryTick < holdPeriod
          /\ \A k \in 1..Len(closedLog[i]) :
               LET held == closedLog[i][k].exitTick - closedLog[i][k].entryTick
               IN  1 <= held /\ held <= holdPeriod)
  /\ [][\A i \in Strategies :
          (/\ t' = t + 1
           /\ activeTrades[i].open
           /\ \/ t' - activeTrades[i].entryTick >= holdPeriod
              \/ Signals(prices', t')[i] = -1)
          => ~activeTrades'[i].open]_vars

\* Some trade was closed by the holding period alone (signal not Exit) and
\* some trade by an Exit signal alone (before the holding period).
C2_Witness ==
  /\ \E i \in Strategies : \E k \in 1..Len(closedLog[i]) :
       /\ closedLog[i][k].exitTick - closedLog[i][k].entryTick = holdPeriod
       /\ SignalAt(i, closedLog[i][k].exitTick) # -1
  /\ \E i \in Strategies : \E k \in 1..Len(closedLog[i]) :
       /\ closedLog[i][k].exitTick - closedLog[i][k].entryTick < holdPeriod
       /\ SignalAt(i, closedLog[i][k].exitTick) = -1

\* C3: a strategy Flat at the start of tick t whose signal at t is Enter is
\* Open after tick t with entryTick = t, entryPrice = the price of tick t and
\* volume = the trade size; Flat with any other signal, it stays Flat.
C3_EntryRule ==
  [][\A i \in Strategies :
       (t' = t + 1 /\ ~activeTrades[i].open)
       => IF Signals(prices', t')[i] = 1
          THEN /\ activeTrades'[i].open
               /\ activeTrades'[i].entryTick = t'
               /\ activeTrades'[i].entryPrice = At(prices', t')
               /\ activeTrades'[i].volume = tradeVolume
          ELSE ~activeTrades'[i].open]_vars

\* Every strategy has entered a trade, one of them at the current tick after
\* having been closed before.
C3_Witness ==
  /\ \A i \in Strategies : opens[i] >= 1
  /\ \E i \in Strategies :
       activeTrades[i].open /\ activeTrades[i].entryTick = t /\ opens[i] >= 2

\* C4: a close at tick t adds to the strategy's CumulativePnL exactly the
\* strategy's PayoffLibrary formula, evaluated at the price of tick t and the
\* strikes recorded at entry, times the trade's volume.
C4_ClosePayoff ==
  [][\A i \in Strategies :
       (t' = t + 1 /\ Len(closedLog'[i]) = Len(closedLog[i]) + 1)
       => LET S  == At(prices', t')
              K1 == activeTrades[i].strike1
              K2 == activeTrades[i].strike2
              K3 == activeTrades[i].strike3
              payoff ==
                CASE i = 1 -> Max(S - K1, 0) + Max(K1 - S, 0)
                  [] i = 2 -> Max(K1 - S, 0) + Max(S - K2, 0)
                  [] i = 3 -> Max(S - K1, 0) - Max(S - K2, 0)
                  [] i = 4 -> Max(K1 - S, 0) - Max(S - K2, 0)
                  [] i = 5 -> Max(S - K1, 0) - 2 * Max(S - K2, 0) + Max(S - K3, 0)
          IN  cumulativePnL'[i] = cumulativePnL[i] + payoff * activeTrades[i].volume]_vars

\* Every strategy has closed a trade at a price other than its entry price,
\* two ticks or more after entry, with a non-zero payoff.
C4_Witness ==
  \A i \in Strategies : \E k \in 1..Len(closedLog[i]) :
    /\ closedLog[i][k].exitPrice # closedLog[i][k].entryPrice
    /\ closedLog[i][k].exitTick >= closedLog[i][k].entryTick + 2
    /\ closedLog[i][k].payoff # 0

\* C5: strikes are fixed at entry from the entry price S and the offset
\* delta = 5%, per strategy (S*(1-delta) is 95*S/100, S*(1+delta) is
\* 105*S/100), and stay unchanged until the trade closes.
C5_StrikesFixedAtEntry ==
  /\ [](\A i \in Strategies :
          LET tr == activeTrades[i]
              S  == tr.entryPrice
          IN  tr.open =>
                /\ S = At(prices, tr.entryTick)
                /\ CASE i = 1 -> tr.strike1 = S
                     [] i = 2 -> 100 * tr.strike1 = 95 * S /\ 100 * tr.strike2 = 105 * S
                     [] i = 3 -> 100 * tr.strike1 = 95 * S /\ 100 * tr.strike2 = 105 * S
                     [] i = 4 -> 100 * tr.strike1 = 105 * S /\ 100 * tr.strike2 = 95 * S
                     [] i = 5 -> /\ 100 * tr.strike1 = 95 * S
                                 /\ tr.strike2 = S
                                 /\ 100 * tr.strike3 = 105 * S)
  /\ [][\A i \in Strategies :
          (activeTrades[i].open /\ activeTrades'[i].entryTick = activeTrades[i].entryTick)
          => /\ activeTrades'[i].strike1 = activeTrades[i].strike1
             /\ activeTrades'[i].strike2 = activeTrades[i].strike2
             /\ activeTrades'[i].strike3 = activeTrades[i].strike3
             /\ activeTrades'[i].entryPrice = activeTrades[i].entryPrice]_vars

\* Strangle and BearSpread each hold a trade entered earlier while the price
\* has moved away from the entry price.
C5_Witness ==
  \A i \in {Strangle, BearSpread} :
    /\ activeTrades[i].open
    /\ activeTrades[i].entryTick < t
    /\ At(prices, t) # activeTrades[i].entryPrice

\* Every price of the history equals the initial price.
ConstantPath == \A k \in 1..Len(prices) : prices[k] = S0

\* The realized volatility of the current tick is exactly 0.
VolIsZero ==
  LET v == computeVolatility(prices, t, volWindow) IN v.den > 0 /\ v.sq = 0

\* C6 (as stated): every strategy's CumulativePnL is monotonic: its value
\* after a tick is never lower than before the tick.
C6_PnLMonotonic ==
  [][\A i \in Strategies : cumulativePnL'[i] >= cumulativePnL[i]]_vars

\* C7 (as stated): on a constant price path the total PnL reported at the
\* end of the run is exactly 0.
C7_ConstantPathTotalZero ==
  (pc = "done" /\ ConstantPath) => totalPnL = 0

\* C7 (amended): on a constant price path Straddle, Strangle, BullSpread and
\* BearSpread realize 0; ButterflySpread closes one trade every holdPeriod+1
\* ticks, each close paying delta*S0*volume; the reported total is the
\* ButterflySpread PnL.
C7_ConstantPathTotal ==
  ConstantPath =>
    /\ \A i \in Strategies \ {ButterflySpread} : cumulativePnL[i] = 0
    /\ Len(closedLog[ButterflySpread]) = t \div (holdPeriod + 1)
    /\ 100 * cumulativePnL[ButterflySpread]
         = Len(closedLog[ButterflySpread]) * tradeVolume * 5 * S0
    /\ pc = "done" => totalPnL = cumulativePnL[ButterflySpread]

\* A finished run on a constant price path with a positive total.
C7_Witness == pc = "done" /\ ConstantPath /\ totalPnL > 0

\* C8 (as stated): when the realized volatility of a tick is 0, none of
\* Straddle, Strangle, ButterflySpread has an Enter signal or opens a trade
\* at that tick.
C8_NoEntryAtZeroVol ==
  (t >= 1 /\ VolIsZero) =>
    \A i \in {Straddle, Strangle, ButterflySpread} :
      /\ SignalAt(i, t) # 1
      /\ ~(activeTrades[i].open /\ activeTrades[i].entryTick = t)

\* C8 (amended): when the realized volatility of a tick is 0, Straddle and
\* Strangle have the Exit signal and open no trade at that tick, while
\* ButterflySpread has the Enter signal.
C8_ZeroVolSignals ==
  (t >= 1 /\ VolIsZero) =>
    /\ \A i \in {Straddle, Strangle} :
         /\ SignalAt(i, t) = -1
         /\ ~(activeTrades[i].open /\ activeTrades[i].entryTick = t)
    /\ SignalAt(ButterflySpread, t) = 1

\* Past the warm-up, on a moving price path, a tick of volatility 0 at which
\* ButterflySpread opens a trade and Straddle has closed one.
C8_Witness ==
  /\ t >= volWindow
  /\ VolIsZero
  /\ ~ConstantPath
  /\ activeTrades[ButterflySpread].open
  /\ activeTrades[ButterflySpread].entryTick = t
  /\ ~activeTrades[Straddle].open
  /\ Len(closedLog[Straddle]) >= 1

\* C9 (as stated): on a constant price path BullSpread and BearSpread open
\* trades and close them by the holding period, every close paying 0.
C9_ConstantPathChurn ==
  (pc = "done" /\ ConstantPath) =>
    \A i \in {BullSpread, BearSpread} :
      /\ opens[i] >= 1
      /\ Len(closedLog[i]) >= 1
      /\ \A k \in 1..Len(closedLog[i]) :
           /\ closedLog[i][k].payoff = 0
           /\ closedLog[i][k].exitTick - closedLog[i][k].entryTick = holdPeriod

\* C9 (amended): on a constant price path shortMA = longMA at every tick, so
\* BullSpread and BearSpread have the Exit signal at every tick, never open
\* a trade and keep a CumulativePnL of 0.
C9_ConstantPathFlat ==
  ConstantPath =>
    \A i \in {BullSpread, BearSpread} :
      /\ t >= 1 => SignalAt(i, t) = -1
      /\ opens[i] = 0
      /\ ~activeTrades[i].open
      /\ cumulativePnL[i] = 0

\* A constant price path longer than one holding period, past the warm-up
\* of the short moving average.
C9_Witness == ConstantPath /\ pc = "loop" /\ t > holdPeriod + 1 /\ t >= shortWindow

\* C10 (as stated): every closed trade of BullSpread, BearSpread and
\* ButterflySpread was open for exactly holdPeriod ticks.
C10_ExactHold ==
  \A i \in {BullSpread, BearSpread, ButterflySpread} :
    \A k \in 1..Len(closedLog[i]) :
      closedLog[i][k].exitTick - closedLog[i][k].entryTick = holdPeriod

\* C10 (amended): every closed trade of BullSpread, BearSpread and
\* ButterflySpread was open for at least 1 and at most holdPeriod ticks, and
\* for exactly holdPeriod ticks unless the signal of its closing tick was Exit.
C10_HoldUnlessExit ==
  \A i \in {BullSpread, BearSpread, ButterflySpread} :
    \A k \in 1..Len(closedLog[i]) :
      LET held == closedLog[i][k].exitTick - closedLog[i][k].entryTick
      IN  /\ 1 <= held
          /\ held <= holdPeriod
          /\ held = holdPeriod \/ SignalAt(i, closedLog[i][k].exitTick) = -1

\* BullSpread has closed one trade early on an Exit signal and one after
\* exactly holdPeriod ticks while its signal was Enter.
C10_Witness ==
  /\ \E k \in 1..Len(closedLog[BullSpread]) :
       /\ closedLog[BullSpread][k].exitTick - closedLog[BullSpread][k].entryTick < holdPeriod
       /\ SignalAt(BullSpread, closedLog[BullSpread][k].exitTick) = -1
  /\ \E i \in {BullSpread, BearSpread, ButterflySpread} :
       \E k \in 1..Len(closedLog[i]) :
         /\ closedLog[i][k].exitTick - closedLog[i][k].entryTick = holdPeriod
         /\ SignalAt(i, closedLog[i][k].exitTick) = 1

\* C11 (as stated): with at least `window` prices up to tick, if the `window`
\* most recent prices (indices tick-window+1 .. tick) are identical,
\* realizedVolatility is exactly 0, whatever the earlier prices are.
C11_WindowIdenticalZero ==
  probe.fn = "computeVolatility" =>
    LET h == probe.history
        k == probe.tick
        w == probe.window
    IN  (k >= w - 1 /\ \A j \in (k - w + 1)..k : At(h, j) = At(h, k))
        => (probe.result.den > 0 /\ probe.result.sq = 0)

\* C11 (amended): realizedVolatility is exactly 0 if tick < window, or if the
\* window+1 most recent prices (indices tick-window .. tick) are identical,
\* whatever the prices before them are.
C11_WindowPlusOneIdenticalZero ==
  probe.fn = "computeVolatility" =>
    LET h == probe.history
        k == probe.tick
        w == probe.window
    IN  (k < w \/ \A j \in (k - w)..k : At(h, j) = At(h, k))
        => (probe.result.den > 0 /\ probe.result.sq = 0)

\* A call past the warm-up whose window+1 most recent prices are identical
\* and follow a different earlier price.
C11_Witness ==
  /\ probe.fn = "computeVolatility"
  /\ probe.tick > probe.window
  /\ \A j \in (probe.tick - probe.window)..probe.tick :
       At(probe.history, j) = At(probe.history, probe.tick)
  /\ At(probe.history, probe.tick - probe.window - 1) # At(probe.history, probe.tick)

\* C12: movingAverage is the arithmetic mean of the prices at indices
\* tick-window+1 .. tick when tick >= window-1 and history[tick] when
\* tick < window-1; it reads no index below 0 or above tick; on a window of
\* identical prices it returns that price.
C12_MovingAverage ==
  probe.fn = "computeMA" =>
    LET h == probe.history
        k == probe.tick
        w == probe.window
        r == probe.result
    IN  /\ probe.reads \subseteq 0..k
        /\ r.den > 0
        /\ IF k >= w - 1
           THEN r.num * w = r.den * SumSeq(SubSeq(h, k - w + 2, k + 1))
           ELSE r.num = r.den * h[k + 1]
        /\ (k >= w - 1 /\ \A j \in (k - w + 1)..k : At(h, j) = At(h, k))
           => r.num = r.den * At(h, k)

\* A call with exactly `window` prices up to tick, not all equal.
C12_Witness ==
  /\ probe.fn = "computeMA"
  /\ probe.window >= 2
  /\ probe.tick = probe.window - 1
  /\ \E j \in 0..probe.tick : At(probe.history, j) # At(probe.history, probe.tick)

C14_ZeroPayoffAtEntryPrice ==
  \A i \in Strategies : \A k \in 1..Len(closedLog[i]) :
    closedLog[i][k].exitPrice = closedLog[i][k].entryPrice
    => closedLog[i][k].payoff = 0

\* C14 (amended): a trade closed at a settlement price equal to its entry
\* price S realizes exactly 0 for Straddle, Strangle and BearSpread, and
\* exactly delta*S*volume for BullSpread and ButterflySpread.
C14_PayoffAtEntryPrice ==
  \A i \in Strategies : \A k \in 1..Len(closedLog[i]) :
    LET rec == closedLog[i][k]
    IN  rec.exitPrice = rec.entryPrice
        => IF i \in {BullSpread, ButterflySpread}
           THEN 100 * rec.payoff = 5 * rec.entryPrice * rec.volume
           ELSE rec.payoff = 0

\* Each of the five strategies has closed a trade at its entry price.
C14_Witness ==
  \A i \in Strategies : \E k \in 1..Len(closedLog[i]) :
    closedLog[i][k].exitPrice = closedLog[i][k].entryPrice

\* The entry fields of a trade record: those written when the trade is opened.
EntryFields(tr) ==
  << tr.strategyType, tr.entryTick, tr.entryPrice, tr.strike1, tr.strike2,
     tr.strike3, tr.volume >>

\* The entry rule, and the close rule, of strategy i fire in the tick that
\* leads from the current state to the next one.
EntryFires(i) ==
  ~activeTrades[i].open /\ Signals(prices', t')[i] = 1
CloseFires(i) ==
  /\ activeTrades[i].open
  /\ \/ t' - activeTrades[i].entryTick >= holdPeriod
     \/ Signals(prices', t')[i] = -1

\* C15: a strategy makes at most one transition per tick: a tick that closes its
\* trade leaves it Flat even if its signal on that tick is Enter, a tick that
\* opens a trade closes none, and after a holding-period close at tick t the
\* strategy is Open at the end of tick t+1 iff its signal at t+1 is Enter.
C15_OneTransitionPerTick ==
  [][ t' = t + 1 =>
        \A i \in Strategies :
          LET closedNow == Len(closedLog'[i]) - Len(closedLog[i])
              openedNow == opens'[i] - opens[i]
              n         == Len(closedLog[i])
          IN  /\ closedNow \in {0, 1} /\ openedNow \in {0, 1}
              /\ closedNow + openedNow <= 1
              /\ closedNow = 1 <=> (activeTrades[i].open /\ ~activeTrades'[i].open)
              /\ openedNow = 1 <=> (~activeTrades[i].open /\ activeTrades'[i].open)
              /\ (CloseFires(i) /\ Signals(prices', t')[i] = 1)
                   => ~activeTrades'[i].open
              /\ ( /\ ~activeTrades[i].open
                   /\ n >= 1
                   /\ closedLog[i][n].exitTick = t
                   /\ closedLog[i][n].exitTick - closedLog[i][n].entryTick = holdPeriod )
                 => (activeTrades'[i].open <=> Signals(prices', t')[i] = 1)
    ]_vars

\* A strategy was closed by the holding-period rule at tick t-1 while its signal
\* was Enter, ended that tick Flat, and has re-entered at tick t.
C15_Witness ==
  \E i \in Strategies :
    LET n == Len(closedLog[i])
    IN  /\ n >= 1
        /\ activeTrades[i].open
        /\ activeTrades[i].entryTick = t
        /\ closedLog[i][n].exitTick = t - 1
        /\ closedLog[i][n].exitTick - closedLog[i][n].entryTick = holdPeriod
        /\ SignalAt(i, t - 1) = 1

\* C16: in a tick where neither the entry rule nor the close rule fires for a
\* strategy, its trade record (open flag, entry tick, entry price, strikes,
\* volume) and its CumulativePnL are unchanged, whatever the other strategies
\* do in that tick; an entry leaves the strategy's CumulativePnL unchanged, and
\* a close leaves the entry fields unchanged and adds only its own payoff.
C16_Frame ==
  [][ t' = t + 1 =>
        \A i \in Strategies :
          /\ (~EntryFires(i) /\ ~CloseFires(i))
               => /\ activeTrades'[i] = activeTrades[i]
                  /\ cumulativePnL'[i] = cumulativePnL[i]
          /\ EntryFires(i)
               => /\ activeTrades'[i].open
                  /\ cumulativePnL'[i] = cumulativePnL[i]
          /\ CloseFires(i)
               => /\ ~activeTrades'[i].open
                  /\ EntryFields(activeTrades'[i]) = EntryFields(activeTrades[i])
                  /\ cumulativePnL'[i] = cumulativePnL[i] + activeTrades'[i].payoff
    ]_vars

\* In the tick just completed one strategy opened a trade, another closed one,
\* and a third stayed Open on its earlier entry with no rule firing.
C16_Witness ==
  \E i, j, k \in Strategies :
    /\ activeTrades[i].open /\ activeTrades[i].entryTick = t
    /\ ~activeTrades[j].open /\ Len(closedLog[j]) >= 1
    /\ closedLog[j][Len(closedLog[j])].exitTick = t
    /\ activeTrades[k].open /\ activeTrades[k].entryTick < t
    /\ t - activeTrades[k].entryTick < holdPeriod
    /\ SignalAt(k, t) # -1

\* The log-returns of the `window` steps that end at tick k of history h.
WindowReturns(h, k, w) ==
  [j \in 1..w |-> Ln(At(h, k - w + j)) - Ln(At(h, k - w + j - 1))]

\* C17 (as stated): at tick = window-1, where exactly `window` observations
\* exist, realizedVolatility is non-zero when those prices are not all equal
\* (the warm-up value 0 being returned only when tick < window-1).
C17_ComputedAtWindowMinusOne ==
  probe.fn = "computeVolatility" =>
    LET h == probe.history
        k == probe.tick
        w == probe.window
    IN  (k = w - 1 /\ \E j \in 0..k : At(h, j) # At(h, k))
        => probe.result.sq # 0

\* C17 (amended): realizedVolatility returns the warm-up value 0 whenever
\* tick < window (fewer than window+1 observations); from tick = window on it
\* is the population standard deviation of the `window` log-returns that end
\* at tick, and is non-zero when those log-returns are not all equal.
C17_WarmUpBelowWindow ==
  probe.fn = "computeVolatility" =>
    LET h == probe.history
        k == probe.tick
        w == probe.window
    IN  IF k < w
        THEN probe.result = [sq |-> 0, den |-> 1]
        ELSE LET r == WindowReturns(h, k, w)
             IN  /\ probe.result.den = w * w
                 /\ probe.result.sq = w * SumSqSeq(r) - SumSeq(r) * SumSeq(r)
                 /\ (\E a, b \in 1..w : r[a] # r[b]) => probe.result.sq # 0

\* The first computed call (tick = window) on a history whose log-returns
\* differ, with a non-zero result.
C17_Witness ==
  /\ probe.fn = "computeVolatility"
  /\ probe.window >= 2
  /\ probe.tick = probe.window
  /\ probe.result.sq # 0

\* C18: in every call of realizedVolatility with window >= 1 and tick >= 1 the
\* divisor is non-zero; a call past the warm-up check starts its loop at an
\* index >= 1, so the i == 0 skip removes nothing, uses exactly `window`
\* log-returns and divides the mean and the variance by that number.
C18_NoDivisionByZero ==
  (probe.fn = "computeVolatility" /\ probe.window >= 1 /\ probe.tick >= 1) =>
    LET h       == probe.history
        k       == probe.tick
        w       == probe.window
        first   == k - w + 1
        returns == VolReturns(h, first, k)
    IN  /\ probe.result.den > 0
        /\ k < w => probe.result.den = 1
        /\ k >= w => /\ first >= 1
                     /\ Len(returns) = k - first + 1
                     /\ Len(returns) >= 1
                     /\ probe.result.den = Len(returns) * Len(returns)

\* A call past the warm-up check whose loop starts at index 1, the index next
\* to the skipped one.
C18_Witness ==
  /\ probe.fn = "computeVolatility"
  /\ probe.window >= 2
  /\ probe.tick = probe.window
  /\ probe.tick - probe.window + 1 = 1
  /\ probe.result.den = probe.window * probe.window

\* C19: after every tick BullSpread and BearSpread are never both Open: a
\* BullSpread trade is Open at the end of a tick only if shortMA > longMA on
\* that tick, a BearSpread trade only if shortMA < longMA on that tick.
C19_BullBearExclusive ==
  t >= 1 =>
    LET shortMA == computeMA(prices, t, shortWindow)
        longMA  == computeMA(prices, t, longWindow)
    IN  /\ ~(activeTrades[BullSpread].open /\ activeTrades[BearSpread].open)
        /\ activeTrades[BullSpread].open
             => shortMA.num * longMA.den > longMA.num * shortMA.den
        /\ activeTrades[BearSpread].open
             => shortMA.num * longMA.den < longMA.num * shortMA.den

\* BullSpread is Open and BearSpread is Flat after having traded earlier, on a
\* tick past the short window.
C19_Witness ==
  /\ t >= shortWindow
  /\ activeTrades[BullSpread].open
  /\ ~activeTrades[BearSpread].open
  /\ Len(closedLog[BearSpread]) >= 1
  /\ Len(closedLog[BullSpread]) >= 1

\* C20: the reported total is the sum of the five CumulativePnL values; each of
\* them is the sum of payoff*volume over the strategy's closed trades, all of
\* which were closed in ticks 1 .. totalTicks-1; a trade still Open after the
\* last tick contributes nothing; no trade is entered at tick 0.
C20_ReportedTotals ==
  /\ \A i \in Strategies :
       /\ cumulativePnL[i] =
            SumSeq([k \in 1..Len(closedLog[i]) |->
                      StrategyPayoff(i, closedLog[i][k].exitPrice, closedLog[i][k])
                        * closedLog[i][k].volume])
       /\ \A k \in 1..Len(closedLog[i]) :
            /\ closedLog[i][k].exitTick \in 1..(totalTicks - 1)
            /\ closedLog[i][k].entryTick >= 1
       /\ activeTrades[i].open => activeTrades[i].entryTick \in 1..(totalTicks - 1)
  /\ pc = "done" =>
       totalPnL = cumulativePnL[Straddle] + cumulativePnL[Strangle]
                    + cumulativePnL[BullSpread] + cumulativePnL[BearSpread]
                    + cumulativePnL[ButterflySpread]

\* The run has reported while a trade is still Open, with closed trades of at
\* least two strategies behind a non-zero total.
C20_Witness ==
  /\ pc = "done"
  /\ \E i \in Strategies : activeTrades[i].open
  /\ \E i, j \in Strategies :
       i # j /\ cumulativePnL[i] # 0 /\ cumulativePnL[j] # 0
  /\ cumulativePnL[ButterflySpread] # 0
  /\ totalPnL # 0

====
